---- MODULE Spec2Model ----
(***************************************************************************)
(* A model of tidal_analysis.py: the record parser, the dataset assembler, *)
(* the subset extractors, the merger, the contiguity finder, the trend     *)
(* estimator and the command line entry point.                             *)
(*                                                                         *)
(* A DataFrame is a frame [cols, rows]; a row is [t, v]: its index label   *)
(* (a timestamp, in seconds since 1970-01-01 00:00:00) and its values by   *)
(* column.  A value is an exact rational [n, d]; NaN/None (the missing     *)
(* marker) is the rational with denominator 0.  Frames live in `heap`; an  *)
(* operation is handed addresses, and a view [addr, lo, hi] shares the     *)
(* rows of the frame it was sliced from until it is copied.                *)
(***************************************************************************)
EXTENDS Integers, Sequences, FiniteSets, TLC

VARIABLES fs, heap, last, calls_left

vars == <<fs, heap, last, calls_left>>

-----------------------------------------------------------------------------
(* Bounds of the model.                                                    *)

MaxCalls == 2
MaxRows == 3
MaxJoined == 4
MaxPattern == 7
MaxBody == 2
MaxField == 3

-----------------------------------------------------------------------------
(* Exact arithmetic on sea levels.                                         *)

Abs(x) == IF x < 0 THEN -x ELSE x

RECURSIVE Gcd(_, _)
Gcd(a, b) == IF b = 0 THEN a ELSE Gcd(b, a % b)

NaN == [n |-> 0, d |-> 0]

notna(x) == x.d # 0

Rat(n, d) ==
  IF d = 0 THEN NaN
  ELSE LET g == Gcd(Abs(n), Abs(d))
           s == IF d < 0 THEN -1 ELSE 1
       IN [n |-> s * (n \div g), d |-> s * (d \div g)]

\* Sums over the least common denominator.
RAdd(a, b) ==
  IF notna(a) /\ notna(b)
  THEN LET g == Gcd(a.d, b.d)
       IN Rat(a.n * (b.d \div g) + b.n * (a.d \div g), (a.d \div g) * b.d)
  ELSE NaN

RSub(a, b) == RAdd(a, [n |-> -b.n, d |-> b.d])

RMul(a, b) == IF notna(a) /\ notna(b) THEN Rat(a.n * b.n, a.d * b.d) ELSE NaN

RDiv(a, b) == IF notna(a) /\ notna(b) /\ b.n # 0 THEN Rat(a.n * b.d, a.d * b.n) ELSE NaN

-----------------------------------------------------------------------------
(* The calendar of pandas timestamps (proleptic Gregorian, no timezone).   *)

SecondsPerDay == 86400
EpochYear == 1970

IsLeap(y) == (y % 4 = 0 /\ y % 100 # 0) \/ y % 400 = 0

DaysInYear(y) == IF IsLeap(y) THEN 366 ELSE 365

DaysInMonth(y, m) ==
  IF m = 2 THEN (IF IsLeap(y) THEN 29 ELSE 28)
  ELSE IF m \in {4, 6, 9, 11} THEN 30 ELSE 31

RECURSIVE DaysBeforeYear(_)
DaysBeforeYear(y) == IF y <= EpochYear THEN 0 ELSE DaysBeforeYear(y - 1) + DaysInYear(y - 1)

RECURSIVE DaysBeforeMonth(_, _)
DaysBeforeMonth(y, m) == IF m <= 1 THEN 0 ELSE DaysBeforeMonth(y, m - 1) + DaysInMonth(y, m - 1)

ValidDate(dt) ==
  /\ dt.m \in 1..12
  /\ dt.d >= 1 /\ dt.d <= DaysInMonth(dt.y, dt.m)

ValidTime(tm) == tm.H \in 0..23 /\ tm.M \in 0..59 /\ tm.S \in 0..59

\* pd.to_datetime(..., format='%Y%m%d'): midnight of the date.
to_datetime(dt) == (DaysBeforeYear(dt.y) + DaysBeforeMonth(dt.y, dt.m) + dt.d - 1) * SecondsPerDay

\* pd.to_datetime(..., format='%Y/%m/%d %H:%M:%S')
to_datetime_hms(dt, tm) == to_datetime(dt) + tm.H * 3600 + tm.M * 60 + tm.S

RECURSIVE YearFrom(_, _)
YearFrom(y, days) == IF days < DaysInYear(y) THEN y ELSE YearFrom(y + 1, days - DaysInYear(y))

\* DatetimeIndex.year
index_year(t) == YearFrom(EpochYear, t \div SecondsPerDay)

-----------------------------------------------------------------------------
(* Frames, and views of them in the heap.                                  *)

SeaLevel == "Sea Level"

Range(s) == {s[i] : i \in DOMAIN s}

is_monotonic_increasing(rows) == \A i \in 1..(Len(rows) - 1) : rows[i].t <= rows[i + 1].t

RemoveAt(s, i) == SubSeq(s, 1, i - 1) \o SubSeq(s, i + 1, Len(s))

\* The orders an argsort of the index labels can leave the rows in: every
\* order that is non-decreasing in t.  The default kind, quicksort, is not
\* stable, so rows with equal labels come out in any relative order.
RECURSIVE ArgsortOutcomes(_)
ArgsortOutcomes(rows) ==
  IF rows = <<>> THEN {<<>>}
  ELSE UNION { { <<rows[i]>> \o s : s \in ArgsortOutcomes(RemoveAt(rows, i)) } :
               i \in {j \in DOMAIN rows : \A k \in DOMAIN rows : rows[j].t <= rows[k].t} }

\* DataFrame.sort_index(): an index already monotonic is returned as it is
\* (a copy); otherwise the rows are taken in the order of the argsort.
sort_index(f) ==
  IF is_monotonic_increasing(f.rows) THEN {f}
  ELSE {[cols |-> f.cols, rows |-> r] : r \in ArgsortOutcomes(f.rows)}

\* A row widened to the columns `cols`: NaN where it has no value.
Widen(row, cols) ==
  [t |-> row.t, v |-> [c \in cols |-> IF c \in DOMAIN row.v THEN row.v[c] ELSE NaN]]

\* pd.concat([f, g]): all rows of f, then all rows of g, over the union of
\* the columns.
concat(f, g) ==
  LET cols == f.cols \cup g.cols
  IN [cols |-> cols,
      rows |-> [i \in 1..(Len(f.rows) + Len(g.rows)) |->
                  IF i <= Len(f.rows) THEN Widen(f.rows[i], cols)
                  ELSE Widen(g.rows[i - Len(f.rows)], cols)]]

\* A row of a frame whose one column is the sea level.
Row1(t, x) == [t |-> t, v |-> [c \in {SeaLevel} |-> x]]

\* A reference to a whole frame of the heap.
Whole(h, a) == [addr |-> a, lo |-> 1, hi |-> Len(h[a].rows)]

\* The frame a reference denotes.
Deref(h, ref) == [cols |-> h[ref.addr].cols, rows |-> SubSeq(h[ref.addr].rows, ref.lo, ref.hi)]

\* A new frame in the heap.
Alloc(h, f) == [heap |-> Append(h, f), ref |-> [addr |-> Len(h) + 1, lo |-> 1, hi |-> Len(f.rows)]]

\* copy() left out: the reference itself, still a view of the frame it came from.
copy_omitted(h, ref) == [heap |-> h, ref |-> ref]

\* DataFrame.copy(): the rows of the reference in a frame of their own.
copy(h, ref) == Alloc(h, Deref(h, ref))

\* What an operation hands back: the heap it leaves, what it returns (a
\* reference, or a value), the exception it raises ("None": none) and what
\* it prints.
Result(h, ret, err, printed) == [heap |-> h, ret |-> ret, err |-> err, printed |-> printed]

\* The heap after a call that started in h0 and ended in h with the frame
\* `ref`: the frames the caller held, as the call left them, and the frame
\* returned when it is a new one (the call's other temporaries are gone).
Return(h0, h, ref) ==
  IF ref.addr <= Len(h0)
  THEN Result(SubSeq(h, 1, Len(h0)), ref, "None", <<>>)
  ELSE Result(Append(SubSeq(h, 1, Len(h0)), h[ref.addr]),
              [addr |-> Len(h0) + 1, lo |-> ref.lo, hi |-> ref.hi], "None", <<>>)

\* The rows a boolean mask selects, in their order.
SelectRows(rows, mask) ==
  LET F[i \in 0..Len(rows)] ==
        IF i = 0 THEN <<>>
        ELSE IF mask[i] THEN Append(F[i - 1], rows[i]) ELSE F[i - 1]
  IN F[Len(rows)]

\* data[mask], data.loc[mask]: boolean indexing makes a new frame.
mask_rows(h, ref, mask) ==
  LET f == Deref(h, ref)
  IN Alloc(h, [cols |-> f.cols, rows |-> SelectRows(f.rows, mask)])

\* data.loc[start_ts:end_ts] on a sorted index: the rows whose label lies
\* in [start_ts, end_ts], both ends included (searchsorted left and
\* right), as a view of data's rows.
loc_slice(h, ref, start_ts, end_ts) ==
  LET f == Deref(h, ref)
      lo == Cardinality({i \in DOMAIN f.rows : f.rows[i].t < start_ts}) + 1
      hi == Cardinality({i \in DOMAIN f.rows : f.rows[i].t <= end_ts})
  IN [addr |-> ref.addr, lo |-> ref.lo + lo - 1, hi |-> ref.lo + hi - 1]

\* Series.mean(): the non-missing values' sum over their number; NaN when
\* there is none.
SumCol(rows, col) ==
  LET F[i \in 0..Len(rows)] ==
        IF i = 0 THEN Rat(0, 1)
        ELSE IF notna(rows[i].v[col]) THEN RAdd(F[i - 1], rows[i].v[col]) ELSE F[i - 1]
  IN F[Len(rows)]

CountCol(rows, col) == Cardinality({i \in DOMAIN rows : notna(rows[i].v[col])})

\* A mean that counts the missing values in its divisor.
mean_over_all_rows(f, col) == RDiv(SumCol(f.rows, col), Rat(Len(f.rows), 1))

mean(f, col) == RDiv(SumCol(f.rows, col), Rat(CountCol(f.rows, col), 1))

\* ref[col] -= m: writes the rows of the reference, in the frame that holds
\* them.
isub(h, ref, col, m) ==
  [h EXCEPT ![ref.addr].rows =
     [i \in DOMAIN @ |->
        IF i >= ref.lo /\ i <= ref.hi
        THEN [@[i] EXCEPT !.v[col] = RSub(@, m)]
        ELSE @[i]]]

\* DataFrame.dropna(subset=[col]): a new frame without the rows missing col.
dropna(h, ref, col) ==
  mask_rows(h, ref, [i \in 1..(ref.hi - ref.lo + 1) |-> notna(Deref(h, ref).rows[i].v[col])])

-----------------------------------------------------------------------------
(* The subset extractors and the merger.                                   *)

extract_single_year_remove_mean(h, year, data) ==
  LET yr == year
      sel == mask_rows(h, Whole(h, data),
                       [i \in DOMAIN h[data].rows |-> index_year(h[data].rows[i].t) = yr])
      subset == copy(sel.heap, sel.ref)
      m == mean(Deref(subset.heap, subset.ref), SeaLevel)
  IN Return(h, isub(subset.heap, subset.ref, SeaLevel, m), subset.ref)

\* The section with its end at midnight of the following day.
extract_section_to_midnight(h, start, end, data) ==
  LET start_ts == to_datetime(start)
      end_ts == to_datetime(end) + SecondsPerDay
      view == loc_slice(h, Whole(h, data), start_ts, end_ts)
      chunk == copy(h, view)
      m == mean(Deref(chunk.heap, chunk.ref), SeaLevel)
  IN Return(h, isub(chunk.heap, chunk.ref, SeaLevel, m), chunk.ref)

extract_section_remove_mean(h, start, end, data) ==
  LET start_ts == to_datetime(start)
      end_ts == to_datetime(end) + SecondsPerDay - 1
      view == loc_slice(h, Whole(h, data), start_ts, end_ts)
      chunk == copy(h, view)
      m == mean(Deref(chunk.heap, chunk.ref), SeaLevel)
  IN Return(h, isub(chunk.heap, chunk.ref, SeaLevel, m), chunk.ref)

\* A join that keeps one row per timestamp.
join_data_drop_duplicates(h, data1, data2) ==
  { LET rows == sorted.rows
        kept == SelectRows(rows, [i \in DOMAIN rows |-> \A j \in 1..(i - 1) : rows[j].t # rows[i].t])
        new == Alloc(h, [cols |-> sorted.cols, rows |-> kept])
    IN Return(h, new.heap, new.ref) :
      sorted \in sort_index(concat(h[data1], h[data2])) }

\* The outcomes of join_data: one per order the sort can produce.
join_data(h, data1, data2) ==
  { LET new == Alloc(h, sorted) IN Return(h, new.heap, new.ref) :
      sorted \in sort_index(concat(h[data1], h[data2])) }

-----------------------------------------------------------------------------
(* The contiguity finder.                                                  *)

\* data['Sea Level'].notna()
labeled_list(f) == [i \in DOMAIN f.rows |-> notna(f.rows[i].v[SeaLevel])]

\* (labeled_list != labeled_list.shift()).cumsum(): the first row differs
\* from the NaN shifted in before it, so the groups count from 1.
inc_groups(lab) ==
  LET F[i \in 0..Len(lab)] ==
        IF i = 0 THEN <<>>
        ELSE IF i = 1 THEN <<1>>
        ELSE Append(F[i - 1], IF lab[i] # lab[i - 1] THEN F[i - 1][i - 1] + 1 ELSE F[i - 1][i - 1])
  IN F[Len(lab)]

\* inc_groups[labeled_list].value_counts(): the size of each present group.
value_counts(lab, grp) ==
  [g \in {grp[i] : i \in {j \in DOMAIN lab : lab[j]}} |->
     Cardinality({i \in DOMAIN lab : lab[i] /\ grp[i] = g})]

\* value_counts().idxmax(): the first label of the greatest count in the
\* order value_counts leaves.  That order comes from sort_values with the
\* default kind, quicksort, which is not stable: groups of equal count come
\* in any order, so any group of the greatest count can be the first.
idxmax(counts) ==
  {g \in DOMAIN counts : \A k \in DOMAIN counts : counts[k] <= counts[g]}

\* The outcomes of get_longest_contiguous_data: ValueError from idxmax when
\* no row is present, else one frame per group idxmax can name.
get_longest_contiguous_data(h, data) ==
  LET lab == labeled_list(h[data])
      grp == inc_groups(lab)
      cand == idxmax(value_counts(lab, grp))
  IN IF cand = {} THEN {Result(h, <<>>, "ValueError", <<>>)}
     ELSE { LET new == mask_rows(h, Whole(h, data), [i \in DOMAIN grp |-> grp[i] = best])
            IN Return(h, new.heap, new.ref) : best \in cand }

-----------------------------------------------------------------------------
(* The trend estimator and the harmonic analyzer.                          *)

\* epsilon = 8.3e-07
epsilon == Rat(83, 100000000)

\* matplotlib.dates.date2num: days since the epoch, with the day's fraction.
date2num(t) == Rat(t, SecondsPerDay)

SumSeq(s) ==
  LET F[i \in 0..Len(s)] == IF i = 0 THEN Rat(0, 1) ELSE RAdd(F[i - 1], s[i])
  IN F[Len(s)]

\* scipy.stats.linregress(x, y) raises ValueError on empty input and when
\* all of several x are identical.
linregress_raises(x) ==
  \/ Len(x) = 0
  \/ Len(x) > 1 /\ \A i \in DOMAIN x : x[i] = x[1]

\* scipy.stats.linregress(x, y).slope: the least-squares slope; NaN (0/0)
\* for a single point.
linregress(x, y) ==
  LET n == Rat(Len(x), 1)
      sx == SumSeq(x)
      sy == SumSeq(y)
      sxy == SumSeq([i \in DOMAIN x |-> RMul(x[i], y[i])])
      sxx == SumSeq([i \in DOMAIN x |-> RMul(x[i], x[i])])
  IN RDiv(RSub(RMul(n, sxy), RMul(sx, sy)), RSub(RMul(n, sxx), RMul(sx, sx)))

\* The regression's sums are computed exactly when every timestamp is a
\* midnight: with a fraction of a day in x the exact squares leave the range
\* of the integers at hand, and the slope is then left out (exact: FALSE).
WholeDays(rows) == \A i \in DOMAIN rows : rows[i].t % SecondsPerDay = 0

\* sea_level_rise returns (slope, p_value); the p-value is the library's
\* and is not modelled.
sea_level_rise(h, data) ==
  LET clean == dropna(h, Whole(h, data), SeaLevel)
      rows == Deref(clean.heap, clean.ref).rows
      x == [i \in DOMAIN rows |-> date2num(rows[i].t)]
      y == [i \in DOMAIN rows |-> rows[i].v[SeaLevel]]
      h1 == SubSeq(clean.heap, 1, Len(h))
  IN IF linregress_raises(x) THEN Result(h1, <<>>, "ValueError", <<"Error during regression">>)
     ELSE IF ~WholeDays(rows) THEN Result(h1, [exact |-> FALSE, slope |-> NaN], "None", <<>>)
     ELSE Result(h1, [exact |-> TRUE, slope |-> RAdd(linregress(x, y), epsilon)], "None", <<>>)

\* tidal_analysis up to its call of uptide.harmonic_analysis, whose
\* amplitudes and phases are the library's: the result stands for the call
\* made, with the values and the elapsed seconds handed over.
tidal_analysis(h, data, constituents, start_datetime) ==
  LET clean == dropna(h, Whole(h, data), SeaLevel)
      rows == Deref(clean.heap, clean.ref).rows
      seconds == [i \in DOMAIN rows |-> rows[i].t - start_datetime]
      values == [i \in DOMAIN rows |-> rows[i].v[SeaLevel]]
  IN Result(SubSeq(clean.heap, 1, Len(h)),
            [constituents |-> constituents, values |-> values, seconds |-> seconds],
            "None", <<>>)

-----------------------------------------------------------------------------
(* The record parser and the dataset assembler.                            *)
(*                                                                         *)
(* A line of a file is [prefix, date, time, f3, f4]: whether it starts     *)
(* with the record number, the date and the time in the pattern's layout   *)
(* (\d+\) \d{4}/\d{2}/\d{2} \d{2}:\d{2}:\d{2}), the numbers written there,  *)
(* and the two fields that follow, each a sequence of characters.  A file  *)
(* is [readable, head, body]: `head` lines of text, then the lines `body`. *)

HeaderLines == 11

Digits == <<"0", "1", "2", "3", "4", "5", "6", "7", "8", "9">>

IsDigit(ch) == \E i \in DOMAIN Digits : Digits[i] = ch

DigitVal(ch) == (CHOOSE i \in DOMAIN Digits : Digits[i] = ch) - 1

\* [\d.\-NTM]
InClass(ch) == IsDigit(ch) \/ ch \in {".", "-", "N", "T", "M"}

\* pattern.match(line): the third field is a whole run of class characters
\* (whitespace must follow it), the fourth has to start with one.
Matches(line) ==
  /\ line.prefix
  /\ line.f3 # <<>> /\ \A i \in DOMAIN line.f3 : InClass(line.f3[i])
  /\ line.f4 # <<>> /\ InClass(line.f4[1])

\* A test for the flag N alone.
flagged_only_N(fld) == fld # <<>> /\ fld[Len(fld)] = "N"

\* re.search(r'[NTM]$', sealevel_str)
Flagged(fld) == fld # <<>> /\ fld[Len(fld)] \in {"N", "T", "M"}

RECURSIVE Pow10(_)
Pow10(k) == IF k = 0 THEN 1 ELSE 10 * Pow10(k - 1)

RECURSIVE DigitsValue(_)
DigitsValue(ds) == IF ds = <<>> THEN 0 ELSE 10 * DigitsValue(SubSeq(ds, 1, Len(ds) - 1)) + DigitVal(ds[Len(ds)])

\* float(sealevel_str) on a string of class characters: an optional minus
\* sign, then digits with at most one point and at least one digit; anything
\* else raises ValueError.
float(fld) ==
  LET neg == fld # <<>> /\ fld[1] = "-"
      body == IF neg THEN SubSeq(fld, 2, Len(fld)) ELSE fld
      points == {i \in DOMAIN body : body[i] = "."}
      ds == SelectSeq(body, IsDigit)
      decimals == IF points = {} THEN 0 ELSE Len(body) - (CHOOSE i \in points : TRUE)
      ok == /\ \A i \in DOMAIN body : IsDigit(body[i]) \/ body[i] = "."
            /\ Cardinality(points) <= 1
            /\ ds # <<>>
  IN IF ok
     THEN [err |-> "None", val |-> Rat((IF neg THEN -1 ELSE 1) * DigitsValue(ds), Pow10(decimals))]
     ELSE [err |-> "ValueError", val |-> NaN]

\* The lines of a file as open() yields them.
TextLine == [prefix |-> FALSE, date |-> [y |-> 0, m |-> 0, d |-> 0],
             time |-> [H |-> 0, M |-> 0, S |-> 0], f3 |-> <<>>, f4 |-> <<>>]

FileLines(file) == [i \in 1..file.head |-> TextLine] \o file.body

\* The loop of read_tidal_data over the lines after the header: the rows
\* appended so far, until a line raises.
RECURSIVE ParseLines(_, _)
ParseLines(lines, data) ==
  IF lines = <<>> THEN [err |-> "None", data |-> data]
  ELSE LET line == Head(lines)
       IN IF ~Matches(line) THEN ParseLines(Tail(lines), data)
          ELSE LET sea_level == IF Flagged(line.f3) THEN [err |-> "None", val |-> NaN]
                                ELSE float(line.f3)
               IN IF sea_level.err # "None" THEN [err |-> sea_level.err, data |-> data]
                  ELSE IF ~(ValidDate(line.date) /\ ValidTime(line.time))
                       THEN [err |-> "ValueError", data |-> data]
                       ELSE ParseLines(Tail(lines),
                                       Append(data, Row1(to_datetime_hms(line.date, line.time),
                                                         sea_level.val)))

\* read_tidal_data: OSError from open(); StopIteration from next(file) when
\* the file ends within the header; ValueError from float() or
\* pd.to_datetime(); else a new frame of the rows in file order.
read_tidal_data(h, file) ==
  IF ~file.readable THEN Result(h, <<>>, "OSError", <<"Error reading file">>)
  ELSE IF Len(FileLines(file)) < HeaderLines
       THEN Result(h, <<>>, "StopIteration", <<"error processing">>)
       ELSE LET lines == FileLines(file)
                parsed == ParseLines(SubSeq(lines, HeaderLines + 1, Len(lines)), <<>>)
            IN IF parsed.err # "None" THEN Result(h, <<>>, parsed.err, <<"error processing">>)
               ELSE LET new == Alloc(h, [cols |-> {SeaLevel}, rows |-> parsed.data])
                    IN Return(h, new.heap, new.ref)

\* [read_tidal_data(f) for f in files], then pd.concat(frames): the frames'
\* rows one file after the other, or the first exception raised.
\* pd.concat of no frames raises ValueError.
RECURSIVE ReadFrames(_, _, _)
ReadFrames(h, files, rows) ==
  IF files = <<>> THEN Result(h, rows, "None", <<>>)
  ELSE LET r == read_tidal_data(h, Head(files))
       IN IF r.err # "None" THEN r
          ELSE ReadFrames(h, Tail(files), rows \o Deref(r.heap, r.ret).rows)

\* The outcomes of read_all_tidal_data on a folder whose files are given in
\* the order of their names (sorted(glob.glob(...))).
read_all_tidal_data(h, folder) ==
  LET frames == ReadFrames(h, folder, <<>>)
  IN IF frames.err # "None"
     THEN {Result(h, <<>>, frames.err, frames.printed \o <<"Error reading folder">>)}
     ELSE IF folder = <<>>
          THEN {Result(h, <<>>, "ValueError", <<"Error reading folder">>)}
          ELSE { LET new == Alloc(h, sorted) IN Return(h, new.heap, new.ref) :
                   sorted \in sort_index([cols |-> {SeaLevel}, rows |-> frames.ret]) }

\* What the entry point prints when a call in its try block raises.
UnexpectedError == "Unexpected error in functions"

\* The try block of the entry point on the frame df at address a of h: the
\* lines printed, one outcome per run the contiguity finder can return.
TryBlock(h, a) ==
  LET slr == sea_level_rise(h, a)
  IN IF slr.err # "None" THEN {<<"head">> \o slr.printed \o <<UnexpectedError>>}
     ELSE { IF block.err # "None"
            THEN <<"head", "Sea level rise">> \o block.printed \o <<UnexpectedError>>
            ELSE <<"head", "Sea level rise", "Longest contiguous period">>
                   \o tidal_analysis(h, a, <<"M2", "S2">>, h[a].rows[1].t).printed
                   \o <<"M2 amplitude", "S2 amplitude">> :
              block \in get_longest_contiguous_data(h, a) }

\* The outcomes of the entry point: an exception of read_all_tidal_data
\* leaves the program (exit status 1); one raised in the try block is caught
\* and reported as UnexpectedError.
main(h, folder) ==
  UNION { IF df.err # "None"
          THEN {Result(h, [exit |-> 1], df.err, df.printed)}
          ELSE {Result(h, [exit |-> 0], "None", printed) : printed \in TryBlock(df.heap, df.ret.addr)} :
          df \in read_all_tidal_data(h, folder) }

-----------------------------------------------------------------------------
(* The calls a caller of the module can make on the frames it holds.       *)

Call(op, args, r) == [op |-> op, args |-> args, ret |-> r.ret, err |-> r.err, printed |-> r.printed]

NoCall == [op |-> "none", args |-> <<>>, ret |-> <<>>, err |-> "None", printed |-> <<>>]

Date(y, m, d) == [y |-> y, m |-> m, d |-> d]

Clock(H, M, S) == [H |-> H, M |-> M, S |-> S]

\* Timestamps on both sides of a day's end and of a year's end.
TimePool ==
  { to_datetime_hms(Date(1970, 12, 30), Clock(23, 59, 59)),
    to_datetime_hms(Date(1970, 12, 31), Clock(0, 0, 0)),
    to_datetime_hms(Date(1970, 12, 31), Clock(23, 59, 59)),
    to_datetime_hms(Date(1971, 1, 1), Clock(0, 0, 0)) }

DatePool == {Date(1970, 12, 31), Date(1971, 1, 1)}

YearPool == {1970, 1971}

ValuePool == {NaN, Rat(1, 1), Rat(2, 1)}

\* The time-sorted frames of at most MaxRows rows over a pool of labels and
\* a pool of sea levels.
SortedFrames(times, values, maxlen) ==
  { [cols |-> {SeaLevel}, rows |-> r] :
      r \in { q \in UNION { [1..n -> {Row1(t, x) : t \in times, x \in values}] : n \in 0..maxlen } :
                is_monotonic_increasing(q) } }

\* A frame that carries a second column.
ResidualFrame ==
  [cols |-> {SeaLevel, "Residual"},
   rows |-> << [t |-> to_datetime(Date(1970, 12, 31)),
                v |-> [c \in {SeaLevel, "Residual"} |-> IF c = SeaLevel THEN Rat(3, 1) ELSE Rat(0, 1)]] >>]

\* The caller makes a bounded number of calls.
Room == calls_left > 0

Called == calls_left' = calls_left - 1

\* A caller that holds a time-sorted frame and a frame with a second
\* column: one call on any frame of up to MaxRows rows, MaxCalls calls in a
\* row from a frame of one row or none.
Init ==
  /\ fs = <<>>
  /\ \/ /\ \E f \in SortedFrames(TimePool, ValuePool, MaxRows) : heap = <<f, ResidualFrame>>
        /\ calls_left = 1
     \/ /\ \E f \in SortedFrames(TimePool, ValuePool, 1) : heap = <<f, ResidualFrame>>
        /\ calls_left = MaxCalls
  /\ last = NoCall

ExtractSingleYear ==
  /\ Room
  /\ \E year \in YearPool, data \in DOMAIN heap :
       LET r == extract_single_year_remove_mean(heap, year, data)
       IN /\ heap' = r.heap
          /\ last' = Call("extract_single_year_remove_mean", [year |-> year, data |-> data], r)
  /\ Called
  /\ UNCHANGED fs

ExtractSection ==
  /\ Room
  /\ \E start \in DatePool, end \in DatePool, data \in DOMAIN heap :
       LET r == extract_section_remove_mean(heap, start, end, data)
       IN /\ heap' = r.heap
          /\ last' = Call("extract_section_remove_mean",
                          [start |-> start, end |-> end, data |-> data], r)
  /\ Called
  /\ UNCHANGED fs

JoinData ==
  /\ Room
  /\ \E data1 \in DOMAIN heap, data2 \in DOMAIN heap :
       /\ Len(heap[data1].rows) + Len(heap[data2].rows) <= MaxJoined
       /\ \E r \in join_data(heap, data1, data2) :
          /\ heap' = r.heap
          /\ last' = Call("join_data", [data1 |-> data1, data2 |-> data2], r)
  /\ Called
  /\ UNCHANGED fs

GetLongest ==
  /\ Room
  /\ \E data \in DOMAIN heap :
       \E r \in get_longest_contiguous_data(heap, data) :
          /\ heap' = r.heap
          /\ last' = Call("get_longest_contiguous_data", [data |-> data], r)
  /\ Called
  /\ UNCHANGED fs

SeaLevelRise ==
  /\ Room
  /\ \E data \in DOMAIN heap :
       LET r == sea_level_rise(heap, data)
       IN /\ heap' = r.heap
          /\ last' = Call("sea_level_rise", [data |-> data], r)
  /\ Called
  /\ UNCHANGED fs

TidalAnalysis ==
  /\ Room
  /\ \E data \in DOMAIN heap :
       /\ heap[data].rows # <<>>
       /\ LET r == tidal_analysis(heap, data, <<"M2", "S2">>, heap[data].rows[1].t)
          IN /\ heap' = r.heap
             /\ last' = Call("tidal_analysis", [data |-> data], r)
  /\ Called
  /\ UNCHANGED fs

Next ==
  \/ ExtractSingleYear
  \/ ExtractSection
  \/ JoinData
  \/ GetLongest
  \/ SeaLevelRise
  \/ TidalAnalysis

Spec == Init /\ [][Next]_vars

-----------------------------------------------------------------------------
(* The parser, the assembler and the entry point on a folder of files.     *)

FieldChars == {"1", ".", "-", "N", "T", "M", "x"}

Fields(maxlen) == UNION { [1..n -> FieldChars] : n \in 1..maxlen }

\* A line in the pattern's layout or not, with a date that exists or not,
\* and any sea level field of up to MaxField characters.
FieldLines ==
  { [prefix |-> p, date |-> d, time |-> Clock(0, 0, 0), f3 |-> f3, f4 |-> f4] :
      p \in BOOLEAN, d \in {Date(1970, 1, 2), Date(1970, 13, 1)},
      f3 \in Fields(MaxField), f4 \in {<<"1">>, <<"x">>} }

RecordLine(d, f3) == [prefix |-> TRUE, date |-> d, time |-> Clock(0, 0, 0), f3 |-> f3, f4 |-> <<"1">>]

\* Records of two days, two of them of the same timestamp, one flagged.
SmallLines ==
  { RecordLine(Date(1970, 1, 1), <<"1">>), RecordLine(Date(1970, 1, 1), <<"2">>),
    RecordLine(Date(1970, 1, 2), <<"1">>), RecordLine(Date(1970, 1, 1), <<"N">>) }

\* Files of up to MaxBody lines after a header of eleven lines or one line
\* short of it, and a file that cannot be opened.
FilePool ==
  { [readable |-> TRUE, head |-> k, body |-> b] :
      k \in {HeaderLines - 1, HeaderLines},
      b \in UNION { [1..n -> SmallLines] : n \in 0..MaxBody } }
  \cup { [readable |-> FALSE, head |-> 0, body |-> <<>>] }

\* A file of one line after its header.
InitParse ==
  /\ heap = <<>>
  /\ last = NoCall
  /\ \E l \in FieldLines : fs = << [readable |-> TRUE, head |-> HeaderLines, body |-> <<l>>] >>
  /\ calls_left = 1

\* A folder of up to two files, in the order of their names.
InitRead ==
  /\ heap = <<>>
  /\ last = NoCall
  /\ \E n \in 0..2 : \E folder \in [1..n -> FilePool] : fs = folder
  /\ calls_left = MaxCalls

ReadTidalData ==
  /\ Room
  /\ \E i \in DOMAIN fs :
       LET r == read_tidal_data(heap, fs[i])
       IN /\ heap' = r.heap
          /\ last' = Call("read_tidal_data", [file |-> i], r)
  /\ Called
  /\ UNCHANGED fs

ReadAllTidalData ==
  /\ Room
  /\ \E r \in read_all_tidal_data(heap, fs) :
       /\ heap' = r.heap
       /\ last' = Call("read_all_tidal_data", <<>>, r)
  /\ Called
  /\ UNCHANGED fs

Main ==
  /\ Room
  /\ \E r \in main(heap, fs) :
       /\ heap' = r.heap
       /\ last' = Call("main", <<>>, r)
  /\ Called
  /\ UNCHANGED fs

NextRead ==
  \/ ReadTidalData
  \/ ReadAllTidalData
  \/ Main
  \/ GetLongest

SpecRead == InitRead /\ [][NextRead]_vars

NextParse == ReadTidalData

SpecParse == InitParse /\ [][NextParse]_vars

-----------------------------------------------------------------------------
(* The contiguity finder on series of present and missing sea levels.      *)

\* Hourly series of up to MaxPattern observations, each present or missing.
PatternFrames ==
  { [cols |-> {SeaLevel}, rows |-> [i \in DOMAIN p |-> Row1((i - 1) * 3600, p[i])]] :
      p \in UNION { [1..n -> {NaN, Rat(1, 1)}] : n \in 0..MaxPattern } }

InitRuns ==
  /\ fs = <<>>
  /\ \E f \in PatternFrames : heap = <<f>>
  /\ last = NoCall
  /\ calls_left = 1

NextRuns == GetLongest

SpecRuns == InitRuns /\ [][NextRuns]_vars

-----------------------------------------------------------------------------
(* The trend estimator on daily series.                                    *)

DayPool == {to_datetime(Date(1970, 1, d)) : d \in 1..4}

TrendValues == {NaN, Rat(0, 1), Rat(1, 1), Rat(2, 1)}

InitTrend ==
  /\ fs = <<>>
  /\ \E f \in SortedFrames(DayPool, TrendValues, MaxRows) : heap = <<f>>
  /\ last = NoCall
  /\ calls_left = 1

NextTrend == SeaLevelRise

SpecTrend == InitTrend /\ [][NextTrend]_vars

-----------------------------------------------------------------------------
(* The subset extractors, the merger and the frames they are handed.       *)

\* The frame the last call returned, and the frame it was handed.
Returned == Deref(heap, last.ret)

Handed == heap[last.args.data]

\* The position in `rows` of the k-th row among those whose index is in idx.
Kth(idx, k) == CHOOSE i \in idx : Cardinality({j \in idx : j < i}) = k - 1

\* The result's rows are the rows idx of the input, in their order, by
\* label and by presence of the sea level.
SelectsExactly(res, inp, idx) ==
  /\ Len(res) = Cardinality(idx)
  /\ \A k \in DOMAIN res :
       /\ res[k].t = inp[Kth(idx, k)].t
       /\ notna(res[k].v[SeaLevel]) = notna(inp[Kth(idx, k)].v[SeaLevel])

InSection(t, start, end) ==
  /\ to_datetime_hms(start, Clock(0, 0, 0)) <= t
  /\ t <= to_datetime_hms(end, Clock(23, 59, 59))

\* C3: extract_section_remove_mean on a time-sorted series selects exactly
\* the observations from 00:00:00 of the start day to 23:59:59 of the end
\* day, both included: one at 23:59:59 of the end day is in the result, one
\* at 00:00:00 of the following day is not.
C3_SectionBounds ==
  (last.op = "extract_section_remove_mean" /\ is_monotonic_increasing(Handed.rows)) =>
    /\ SelectsExactly(Returned.rows, Handed.rows,
                      {i \in DOMAIN Handed.rows :
                         InSection(Handed.rows[i].t, last.args.start, last.args.end)})
    /\ \A i \in DOMAIN Handed.rows :
         /\ Handed.rows[i].t = to_datetime_hms(last.args.end, Clock(23, 59, 59))
              /\ to_datetime(last.args.start) <= Handed.rows[i].t
            => \E k \in DOMAIN Returned.rows : Returned.rows[k].t = Handed.rows[i].t
         /\ Handed.rows[i].t = to_datetime(last.args.end) + SecondsPerDay
            => \A k \in DOMAIN Returned.rows : Returned.rows[k].t # Handed.rows[i].t

\* A section was taken of a frame with a row at 23:59:59 of the end day and
\* a row at 00:00:00 of the day after: the first is kept, the second is not.
C3_Witness ==
  /\ last.op = "extract_section_remove_mean"
  /\ \E i, j \in DOMAIN Handed.rows :
       /\ Handed.rows[i].t = to_datetime_hms(last.args.end, Clock(23, 59, 59))
       /\ Handed.rows[j].t = to_datetime(last.args.end) + SecondsPerDay
  /\ Len(Returned.rows) = 1
  /\ Returned.rows[1].t = to_datetime_hms(last.args.end, Clock(23, 59, 59))

InYear(t, year) == to_datetime(Date(year, 1, 1)) <= t /\ t < to_datetime(Date(year + 1, 1, 1))

Present(rows) == {i \in DOMAIN rows : notna(rows[i].v[SeaLevel])}

\* C4: extract_single_year_remove_mean returns exactly the observations of
\* the given calendar year, in their order; each non-missing sea level is
\* the original less the mean of the selected non-missing values, each
\* missing one stays missing, and the non-missing results sum to 0.
C4_YearDemeaned ==
  last.op = "extract_single_year_remove_mean" =>
    LET inp == Handed.rows
        res == Returned.rows
        idx == {i \in DOMAIN inp : InYear(inp[i].t, last.args.year)}
        sel == {i \in idx : notna(inp[i].v[SeaLevel])}
        total == SumSeq([k \in 1..Cardinality(sel) |-> inp[Kth(sel, k)].v[SeaLevel]])
    IN /\ SelectsExactly(res, inp, idx)
       /\ \A k \in Present(res) :
            RMul(Rat(Cardinality(sel), 1), RSub(inp[Kth(idx, k)].v[SeaLevel], res[k].v[SeaLevel])) = total
       /\ SumSeq([k \in 1..Cardinality(Present(res)) |-> res[Kth(Present(res), k)].v[SeaLevel]]) = Rat(0, 1)

\* A year was taken of a frame with a row of another year, a missing value
\* and a value that the mean changes.
C4_Witness ==
  /\ last.op = "extract_single_year_remove_mean"
  /\ Len(Returned.rows) < Len(Handed.rows)
  /\ \E k \in DOMAIN Returned.rows : ~notna(Returned.rows[k].v[SeaLevel])
  /\ \E k \in DOMAIN Returned.rows : Returned.rows[k].v[SeaLevel] = Rat(0, 1)
  /\ \E i \in DOMAIN Handed.rows : Handed.rows[i].v[SeaLevel] = Rat(2, 1)

\* The number of rows of frame f that are the row r once f's missing columns
\* are filled with the missing marker.
Copies(f, r) ==
  Cardinality({i \in DOMAIN f.rows :
                 /\ f.rows[i].t = r.t
                 /\ \A c \in DOMAIN r.v : r.v[c] = IF c \in f.cols THEN f.rows[i].v[c] ELSE NaN})

\* C6: join_data returns every row of both inputs, none merged (as many
\* rows as both inputs have together), ordered non-decreasingly by
\* timestamp, with the missing marker in any column an input lacks.
C6_JoinKeepsAll ==
  last.op = "join_data" =>
    LET f == heap[last.args.data1]
        g == heap[last.args.data2]
        res == Returned
    IN /\ Len(res.rows) = Len(f.rows) + Len(g.rows)
       /\ res.cols = f.cols \cup g.cols
       /\ is_monotonic_increasing(res.rows)
       /\ \A k \in DOMAIN res.rows :
            /\ DOMAIN res.rows[k].v = res.cols
            /\ Cardinality({j \in DOMAIN res.rows : res.rows[j] = res.rows[k]})
                 = Copies(f, res.rows[k]) + Copies(g, res.rows[k])

\* Two frames with different columns and a common timestamp were joined out
\* of order: the result holds both rows of that timestamp, one with the
\* missing marker in the column its frame lacks.
C6_Witness ==
  /\ last.op = "join_data"
  /\ heap[last.args.data1].cols # heap[last.args.data2].cols
  /\ ~is_monotonic_increasing(concat(heap[last.args.data1], heap[last.args.data2]).rows)
  /\ \E j, k \in DOMAIN Returned.rows :
       /\ j < k
       /\ Returned.rows[j].t = Returned.rows[k].t
       /\ ~notna(Returned.rows[j].v["Residual"]) \/ ~notna(Returned.rows[k].v["Residual"])

FrameOps ==
  {"extract_single_year_remove_mean", "extract_section_remove_mean", "join_data",
   "get_longest_contiguous_data"}

\* C10: no call changes a frame the caller holds, and a frame returned is a
\* new one, sharing no rows with them.
C10_InputsUntouched ==
  [][ /\ \A a \in DOMAIN heap : a \in DOMAIN heap' /\ heap'[a] = heap[a]
      /\ (last'.op \in FrameOps /\ last'.err = "None") =>
           /\ last'.ret.addr = Len(heap) + 1
           /\ Len(heap') = Len(heap) + 1
           /\ last'.ret = Whole(heap', last'.ret.addr)
      /\ last'.op \notin FrameOps \/ last'.err # "None" => heap' = heap ]_vars

\* A section was taken and its mean removed: the values returned differ from
\* the ones of the frame handed in, which still has its own.
C10_Witness ==
  /\ last.op = "extract_section_remove_mean"
  /\ calls_left = 0
  /\ Len(Returned.rows) = Len(Handed.rows)
  /\ \E k \in DOMAIN Returned.rows :
       /\ notna(Returned.rows[k].v[SeaLevel])
       /\ Returned.rows[k].v[SeaLevel] # Handed.rows[k].v[SeaLevel]

-----------------------------------------------------------------------------
(* The record parser.                                                      *)

\* The file the last read_tidal_data was handed, and its one line.
FileRead == fs[last.args.file]

LineRead == FileRead.body[1]

\* The line has the record layout: the pattern's prefix, a sea level field
\* of the pattern's characters and a second field that starts with one.
HasLayout(line) ==
  /\ line.prefix
  /\ Range(line.f3) \subseteq {"0", "1", "2", "3", "4", "5", "6", "7", "8", "9", ".", "-", "N", "T", "M"}
  /\ line.f4[1] \in {"0", "1", "2", "3", "4", "5", "6", "7", "8", "9", ".", "-", "N", "T", "M"}

EndsInFlag(fld) == fld[Len(fld)] = "N" \/ fld[Len(fld)] = "T" \/ fld[Len(fld)] = "M"

\* A decimal numeral: an optional minus sign, digits, at most one point.
UnsignedPart(fld) == IF fld[1] = "-" THEN Tail(fld) ELSE fld

IsNumeral(fld) ==
  LET u == UnsignedPart(fld)
  IN /\ \A i \in DOMAIN u : u[i] \in Range(Digits) \cup {"."}
     /\ Cardinality({i \in DOMAIN u : u[i] = "."}) <= 1
     /\ \E i \in DOMAIN u : u[i] # "."

\* The numeral's value: each digit weighted by its place.
NumeralValue(fld) ==
  LET u == UnsignedPart(fld)
      point == IF \E i \in DOMAIN u : u[i] = "." THEN CHOOSE i \in DOMAIN u : u[i] = "." ELSE Len(u) + 1
      place(i) == IF i < point THEN Rat(Pow10(point - 1 - i), 1) ELSE Rat(1, Pow10(i - point))
      magnitude == SumSeq([i \in DOMAIN u |-> IF u[i] = "." THEN Rat(0, 1)
                                              ELSE RMul(Rat(DigitVal(u[i]), 1), place(i))])
  IN IF fld[1] = "-" THEN RSub(Rat(0, 1), magnitude) ELSE magnitude

OneObservation(x) ==
  /\ last.err = "None"
  /\ Len(Returned.rows) = 1
  /\ Returned.rows[1].v[SeaLevel] = x

C8_ShortHeaderIsEmpty ==
  (/\ last.op = "read_tidal_data"
   /\ FileRead.readable
   /\ FileRead.head + Len(FileRead.body) < HeaderLines) =>
     last.err = "None" /\ Returned.rows = <<>>

-----------------------------------------------------------------------------
(* The dataset assembler.                                                  *)

\* The observations of the folder's files, in the order of the file names
\* and, within a file, of its lines.
Concatenated == ReadFrames(<<>>, fs, <<>>).ret

\* The place of row i in the stable sort of rows by timestamp.
StablePlace(rows, i) ==
  Cardinality({j \in DOMAIN rows : rows[j].t < rows[i].t \/ (rows[j].t = rows[i].t /\ j <= i)})

C2_SortedAndComplete ==
  (last.op = "read_all_tidal_data" /\ last.err = "None") =>
     /\ is_monotonic_increasing(Returned.rows)
     /\ Len(Returned.rows) = Len(Concatenated)
     /\ \A r \in Range(Concatenated) :
          Cardinality({k \in DOMAIN Returned.rows : Returned.rows[k] = r})
            = Cardinality({i \in DOMAIN Concatenated : Concatenated[i] = r})

-----------------------------------------------------------------------------
(* The contiguity finder.                                                  *)

\* Rows lo..hi are a maximal run of present sea levels.
IsRun(rows, lo, hi) ==
  /\ lo <= hi
  /\ \A i \in lo..hi : notna(rows[i].v[SeaLevel])
  /\ lo = 1 \/ ~notna(rows[lo - 1].v[SeaLevel])
  /\ hi = Len(rows) \/ ~notna(rows[hi + 1].v[SeaLevel])

C1_LongestRun ==
  (last.op = "get_longest_contiguous_data" /\ Present(Handed.rows) # {}) =>
     /\ last.err = "None"
     /\ \E lo, hi \in DOMAIN Handed.rows :
          /\ IsRun(Handed.rows, lo, hi)
          /\ Returned.rows = SubSeq(Handed.rows, lo, hi)
          /\ \A lo2, hi2 \in DOMAIN Handed.rows :
               IsRun(Handed.rows, lo2, hi2) => hi2 - lo2 <= hi - lo

\* The exceptions that other failures of the program raise.
OtherFailures == {"ValueError", "OSError", "StopIteration"}

\* C7: on a series with no present sea level get_longest_contiguous_data
\* reports a condition of its own, neither a result nor the error of
\* another failure, and the entry point run on such a series reports
\* something else than the message it has for every failure.
C7_NoDataIsDistinct ==
  /\ (last.op = "get_longest_contiguous_data" /\ Present(Handed.rows) = {}) =>
        last.err # "None" /\ last.err \notin OtherFailures
  /\ (/\ last.op = "main"
      /\ last.ret.exit = 0
      /\ Concatenated # <<>>
      /\ \A i \in DOMAIN Concatenated : ~notna(Concatenated[i].v[SeaLevel])) =>
        last.printed[Len(last.printed)] # UnexpectedError

-----------------------------------------------------------------------------
(* The trend estimator.                                                    *)

Days(t) == Rat(t, SecondsPerDay)

\* C9: for a series whose non-missing sea levels lie on a line of slope s
\* per day, sea_level_rise returns the slope s.
C9_SlopeOfALine ==
  (last.op = "sea_level_rise" /\ last.err = "None" /\ last.ret.exact) =>
     LET rows == Handed.rows
     IN \A p, q \in Present(rows) :
          rows[p].t # rows[q].t =>
            LET s == RDiv(RSub(rows[q].v[SeaLevel], rows[p].v[SeaLevel]),
                          Days(rows[q].t - rows[p].t))
            IN (\A i \in Present(rows) :
                  RSub(rows[i].v[SeaLevel], rows[p].v[SeaLevel]) = RMul(s, Days(rows[i].t - rows[p].t)))
               => last.ret.slope = s

\* What the estimator returns for such a series: s and the offset epsilon.
C9_SlopePlusOffset ==
  (last.op = "sea_level_rise" /\ last.err = "None" /\ last.ret.exact) =>
     LET rows == Handed.rows
     IN \A p, q \in Present(rows) :
          rows[p].t # rows[q].t =>
            LET s == RDiv(RSub(rows[q].v[SeaLevel], rows[p].v[SeaLevel]),
                          Days(rows[q].t - rows[p].t))
            IN (\A i \in Present(rows) :
                  RSub(rows[i].v[SeaLevel], rows[p].v[SeaLevel]) = RMul(s, Days(rows[i].t - rows[p].t)))
               => last.ret.slope = RAdd(s, Rat(83, 100000000))

====
